---- MODULE Spec2Model ----
(***************************************************************************)
(* The liked-songs cleanup of spotifyhygiene: the rate-limited client      *)
(* (SpotifyService.make_request, SpotifyLikedSongsCleaner                  *)
(* .make_spotify_request), the paginated library fetch, the activity       *)
(* feeds, the staleness classification and the removal loops of            *)
(* SpotifyService.analyze_and_cleanup / preview_cleanup and of             *)
(* SpotifyLikedSongsCleaner.clean_liked_songs, and the POST                *)
(* /cleanup/start route that runs analyze_and_cleanup for a user, and the  *)
(* OAuth routes /login and /callback.                                      *)
(*                                                                         *)
(* Time stamps are whole days; sleeps are whole seconds.  The remote API   *)
(* is the environment: it answers every request with a status chosen       *)
(* freely, and a DELETE it answers 200 or 204 has been applied to the      *)
(* remote library.                                                         *)
(***************************************************************************)
EXTENDS Integers, Sequences, FiniteSets, TLC

VARIABLES
    cls,               \* the class whose code runs: "SpotifyService" or "SpotifyLikedSongsCleaner"
    entry,             \* the entry point: analyze_and_cleanup, preview_cleanup, clean_liked_songs, make_request, start_cleanup, callback
    pc,                \* position of the run
    timeframe_months,  \* argument of analyze_and_cleanup / preview_cleanup
    remote,            \* the remote liked library (sequence of liked entries)
    library0,          \* the remote liked library when the run started
    feeds,             \* the remote activity feeds: recently played, short-term top, medium-term top
    access_token,      \* self.access_token / the Authorization header
    attempt,           \* loop variable of make_request's for attempt in range(3)
    request,           \* the request of the client call in progress
    wire,              \* the HTTP request sent by the latest step (NoRequest when it sent none)
    trace,             \* wire history of a standalone client call (sends, responses, sleeps)
    result,            \* return value of the standalone client call
    liked_songs,       \* songs accumulated by get_liked_songs
    offset,            \* offset of get_liked_songs
    recently_played,   \* items returned by get_recently_played
    short_term_top,    \* items returned by get_top_tracks("short_term")
    medium_term_top,   \* items returned by get_top_tracks("medium_term")
    tracks_to_remove,  \* the removal plan
    batch_start,       \* loop variable i of remove_tracks_from_liked / index of the cleaner's removal loop
    batches,           \* the batch calls issued so far: ids and outcome of each
    removed_count,     \* removed_count of the cleaner's removal loop
    failed_count,      \* failed_count of the cleaner's removal loop
    confirmation,      \* the answer read at the cleaner's prompt, lower-cased and stripped
    summary,           \* the dictionary returned by the run (or the cleaner's printed summary)
    auth_expired,      \* the request of the latest step was answered 401 and the client got no new token
    cleanup_sessions,  \* the cleanup_sessions table: the CleanupSession rows in order of creation
    handlers,          \* the POST /cleanup/start requests being served: position and locals of each
    session,           \* the Flask session of one browser: oauth_state and user_id
    callback_args,     \* request.args of the latest /callback request (NoArgs after a /login)
    exchanges          \* the calls of exchange_code_for_tokens made so far: code and outcome

fetchVars == <<liked_songs, offset>>
feedVars == <<recently_played, short_term_top, medium_term_top>>
removalVars == <<tracks_to_remove, batch_start, batches, removed_count, failed_count>>
runVars == <<fetchVars, feedVars, removalVars, confirmation, summary>>
routeVars == <<cleanup_sessions, handlers>>
oauthVars == <<session, callback_args, exchanges>>
vars == <<cls, entry, pc, timeframe_months, remote, library0, feeds, access_token,
          attempt, request, wire, trace, result, liked_songs, offset, recently_played,
          short_term_top, medium_term_top, tracks_to_remove, batch_start, batches,
          removed_count, failed_count, confirmation, summary, auth_expired,
          cleanup_sessions, handlers, session, callback_args, exchanges>>

(***************************************************************************)
(* Program constants                                                       *)
(***************************************************************************)
MaxAttempts == 3
batch_size == 50
limit == 50
DaysPerMonth == 30
SixMonthsDays == 180
ServiceErrorSleep == 1
CleanerErrorSleep == 2
DefaultRetryAfter == 1

(***************************************************************************)
(* Bounds of the model                                                     *)
(***************************************************************************)
Now == 400          \* the day datetime.now() reads
MaxHead == 2        \* freely chosen liked entries at the head of the library

Min(a, b) == IF a < b THEN a ELSE b

(***************************************************************************)
(* The wire: requests and responses                                        *)
(***************************************************************************)
NoRequest == [method |-> "none", endpoint |-> "", offset |-> 0, time_range |-> "",
              ids |-> <<>>, token |-> ""]

Req(method, endpoint, off, range, ids) ==
    [method |-> method, endpoint |-> endpoint, offset |-> off, time_range |-> range,
     ids |-> ids, token |-> ""]

\* A response: a network error (requests raises), or a status with the parts of the
\* response the client reads: the kind of body of a 200, the Retry-After header of a 429.
Http(status, body, ra) == [err |-> FALSE, status |-> status, body |-> body, ra |-> ra]
NetworkError == [err |-> TRUE, status |-> 0, body |-> "", ra |-> ""]

Responses ==
    {NetworkError}
    \cup {Http(200, b, "") : b \in {"json", "empty", "invalid"}}
    \cup {Http(429, "", ra) : ra \in {"absent", "2", "bad"}}
    \cup {Http(s, "", "") : s \in {204, 401, 500}}

\* int(response.headers.get('Retry-After', 1)); "bad" is a header int() rejects
RetryAfterRaises(ra) == ra = "bad"
\* a client that sleeps the default second whatever the header says
RetryAfterIgnored(ra) == DefaultRetryAfter

RetryAfterSeconds(ra) == IF ra = "absent" THEN DefaultRetryAfter ELSE 2

(***************************************************************************)
(* Return values of the client                                             *)
(***************************************************************************)
None == [tag |-> "None", items |-> <<>>]
Success == [tag |-> "success", items |-> <<>>]      \* {"success": True}
Json(items) == [tag |-> "json", items |-> items]    \* response.json()

\* one iteration of the loop ends the call (return / raise) or goes round again
\* (refresh: whether the iteration ran refresh_access_token, and how it ended)
Return(r, slept) == [kind |-> "return", result |-> r, slept |-> slept, refresh |-> "none"]
Raise == [kind |-> "raise", result |-> None, slept |-> 0, refresh |-> "none"]
Continue(slept) == [kind |-> "continue", result |-> None, slept |-> slept, refresh |-> "none"]

\* `continue` of the for loop: the next iteration, or the return None after the loop
LoopContinue(att, slept) ==
    IF att + 1 < MaxAttempts THEN Continue(slept) ELSE Return(None, slept)

\* the 200 branch, the same in both clients
Handle200(method, body, payload) ==
    IF method = "DELETE" /\ body = "empty" THEN Return(Success, 0)
    ELSE IF body = "json" THEN Return(Json(payload), 0)
    ELSE IF method = "DELETE" THEN Return(Success, 0)
    ELSE Return(None, 0)

\* SpotifyService.make_request: one iteration of the loop on response resp
make_request(method, att, resp, payload) ==
    IF resp.err
    THEN IF att = MaxAttempts - 1 THEN Return(None, 0)
         ELSE LoopContinue(att, ServiceErrorSleep)
    ELSE IF resp.status = 429
    THEN IF RetryAfterRaises(resp.ra) THEN Raise
         ELSE LoopContinue(att, RetryAfterSeconds(resp.ra))
    ELSE IF resp.status = 200 THEN Handle200(method, resp.body, payload)
    ELSE IF resp.status = 401 THEN Return(None, 0)
    ELSE Return(None, 0)

\* an except branch that gives up at the first error
CleanerExceptNoRetry(att) == Return(None, 0)

\* the except Exception branch of make_spotify_request
CleanerExcept(att) ==
    IF att < MaxAttempts - 1 THEN LoopContinue(att, CleanerErrorSleep)
    ELSE Return(None, 0)

\* SpotifyLikedSongsCleaner.refresh_access_token followed by the 401 branch
Handle401(att, refreshOk) ==
    IF refreshOk
    THEN [LoopContinue(att, 0) EXCEPT !.refresh = "ok"]
    ELSE [Return(None, 0) EXCEPT !.refresh = "failed"]

\* SpotifyLikedSongsCleaner.make_spotify_request: one iteration of the loop
make_spotify_request(method, att, resp, payload, refreshOk) ==
    IF resp.err THEN CleanerExcept(att)
    ELSE IF resp.status = 401 THEN Handle401(att, refreshOk)
    ELSE IF resp.status = 429
    THEN IF RetryAfterRaises(resp.ra) THEN CleanerExcept(att)
         ELSE LoopContinue(att, RetryAfterSeconds(resp.ra))
    ELSE IF resp.status = 200 THEN Handle200(method, resp.body, payload)
    ELSE IF resp.status = 204 THEN Return(Success, 0)
    ELSE Return(None, 0)

Iteration(c, method, att, resp, payload, refreshOk) ==
    IF c = "SpotifyService" THEN make_request(method, att, resp, payload)
    ELSE make_spotify_request(method, att, resp, payload, refreshOk)

(***************************************************************************)
(* The remote API                                                          *)
(***************************************************************************)
\* added_at strings: a UTC 'Z' time stamp naming day t, or text fromisoformat rejects
Stamp(t) == [iso |-> TRUE, t |-> t]
BadStamp == [iso |-> FALSE, t |-> 0]
Liked(id, added_at) == [id |-> id, added_at |-> added_at]

Range(s) == {s[i] : i \in 1..Len(s)}

\* the page of the liked library at an offset
Page(lib, off) == SubSeq(lib, off + 1, Min(off + limit, Len(lib)))

\* the items of the JSON body the API sends with a 200
ServerPayload(lib, fd, req) ==
    IF req.method # "GET" THEN <<>>
    ELSE IF req.endpoint = "/me/tracks" THEN Page(lib, req.offset)
    ELSE IF req.endpoint = "/me/player/recently-played" THEN fd.recent
    ELSE IF req.endpoint = "/me/top/tracks" THEN
        (IF req.time_range = "short_term" THEN fd.short ELSE fd.medium)
    ELSE <<>>

\* a DELETE /me/tracks answered 200 or 204 removed its ids from the library
ServerApply(lib, req, resp) ==
    IF req.method = "DELETE" /\ ~resp.err /\ resp.status \in {200, 204}
    THEN LET Keep(e) == e.id \notin Range(req.ids) IN SelectSeq(lib, Keep)
    ELSE lib

(***************************************************************************)
(* One iteration of the client loop, as every caller runs it               *)
(***************************************************************************)
Sent(req) == [req EXCEPT !.token = access_token]

Outcome(req, resp, refreshOk) ==
    Iteration(cls, req.method, attempt, resp, ServerPayload(remote, feeds, req), refreshOk)

\* the outcomes of the token exchange an iteration may run: only the cleaner's 401
\* branch runs one
RefreshOutcomes(resp) ==
    IF cls = "SpotifyLikedSongsCleaner" /\ ~resp.err /\ resp.status = 401
    THEN BOOLEAN ELSE {FALSE}

\* a 401 that leaves the client without a new access token
AuthExpired(resp, o) == ~resp.err /\ resp.status = 401 /\ o.refresh # "ok"

ClientStep(req, resp, o) ==
    /\ wire' = Sent(req)
    /\ remote' = ServerApply(remote, req, resp)
    /\ access_token' = IF o.refresh = "ok" THEN "refreshed" ELSE access_token
    /\ attempt' = IF o.kind = "continue" THEN attempt + 1 ELSE 0
    /\ auth_expired' = AuthExpired(resp, o)

(***************************************************************************)
(* A standalone client call, with its wire history                         *)
(***************************************************************************)
Event(ev, req, resp, secs) == [ev |-> ev, req |-> req, resp |-> resp, secs |-> secs]
NoResponse == [err |-> FALSE, status |-> 0, body |-> "", ra |-> ""]

Events(req, resp, o) ==
    <<Event("send", Sent(req), NoResponse, 0), Event("recv", NoRequest, resp, 0)>>
    \o (IF o.refresh = "none" THEN <<>>
        ELSE <<Event("refresh", NoRequest, NoResponse, IF o.refresh = "ok" THEN 1 ELSE 0)>>)
    \o (IF o.slept > 0 THEN <<Event("sleep", NoRequest, NoResponse, o.slept)>> ELSE <<>>)

ClientCall ==
    /\ entry = "make_request"
    /\ pc = "call"
    /\ \E resp \in Responses : \E refreshOk \in RefreshOutcomes(resp) :
          LET o == Outcome(request, resp, refreshOk) IN
            /\ ClientStep(request, resp, o)
            /\ trace' = trace \o Events(request, resp, o)
            /\ pc' = IF o.kind = "continue" THEN "call"
                     ELSE IF o.kind = "raise" THEN "raised" ELSE "returned"
            /\ result' = o.result
    /\ UNCHANGED <<cls, entry, request, library0, feeds, timeframe_months, runVars,
                   routeVars, oauthVars>>

NoSummary == [kind |-> "none"]
NoFeeds == [recent |-> <<>>, short |-> <<>>, medium |-> <<>>]

\* what session.get and request.args.get return for a key that is not there
Missing == "None"

\* a browser session before any /login, and request.args of no /callback request
NewSession == [oauth_state |-> Missing, user_id |-> Missing]
Args(route, error, code, state) ==
    [route |-> route, error |-> error, code |-> code, state |-> state]
NoArgs == Args("login", Missing, Missing, Missing)

OAuthInit ==
    /\ session = NewSession
    /\ callback_args = NoArgs
    /\ exchanges = <<>>

RunVarsInit ==
    /\ liked_songs = <<>>
    /\ offset = 0
    /\ recently_played = <<>>
    /\ short_term_top = <<>>
    /\ medium_term_top = <<>>
    /\ tracks_to_remove = <<>>
    /\ batch_start = 0
    /\ batches = <<>>
    /\ removed_count = 0
    /\ failed_count = 0
    /\ confirmation = ""
    /\ summary = NoSummary
    /\ auth_expired = FALSE

ClientRequests ==
    { Req("GET", "/me/tracks", 0, "", <<>>),
      Req("DELETE", "/me/tracks", 0, "", <<1>>) }

InitClient ==
    /\ cls \in {"SpotifyService", "SpotifyLikedSongsCleaner"}
    /\ entry = "make_request"
    /\ pc = "call"
    /\ timeframe_months = 6
    /\ remote = <<Liked(1, Stamp(Now - SixMonthsDays - 1)), Liked(2, Stamp(Now))>>
    /\ library0 = remote
    /\ feeds = NoFeeds
    /\ access_token = "initial"
    /\ attempt = 0
    /\ request \in ClientRequests
    /\ wire = NoRequest
    /\ trace = <<>>
    /\ result = None
    /\ RunVarsInit
    /\ cleanup_sessions = <<>>
    /\ handlers = <<>>
    /\ OAuthInit

NextClient == ClientCall

SpecClient == InitClient /\ [][NextClient]_vars

(***************************************************************************)
(* Steps of the runs                                                       *)
(***************************************************************************)
\* a step that sends nothing
Local ==
    /\ wire' = NoRequest
    /\ UNCHANGED <<cls, entry, request, trace, result, library0, feeds, timeframe_months,
                   remote, access_token, attempt, routeVars, oauthVars>>
    /\ auth_expired' = FALSE

Items(r) == IF r.tag = "json" THEN r.items ELSE <<>>     \* response.get('items', [])

Aborted(why) == [kind |-> "aborted", why |-> why]

\* an exception that leaves the run: the ValueError of int() on a Retry-After header or
\* of datetime.fromisoformat
Exception(raised_by) == [kind |-> "exception", raised_by |-> raised_by]

(***************************************************************************)
(* get_user_profile (the cleaner's first call)                             *)
(***************************************************************************)
ProfileCont(o) ==
    /\ IF o.result.tag = "None"
       THEN pc' = "done" /\ summary' = Aborted("Failed to get user profile")
       ELSE pc' = "get_liked_songs" /\ summary' = summary
    /\ UNCHANGED <<fetchVars, feedVars, removalVars, confirmation>>

(***************************************************************************)
(* get_liked_songs, and what its caller does when it returns               *)
(***************************************************************************)
EmptyResult ==
    [kind |-> "result", total_liked_songs |-> 0, songs_analyzed |-> 0, songs_removed |-> 0,
     songs_kept |-> 0, removed_tracks |-> <<>>]

EmptyPreview ==
    [kind |-> "preview", total_liked_songs |-> 0, tracks_to_remove |-> <<>>,
     tracks_to_keep |-> 0]

\* a caller that goes on to the feeds whatever the fetch returned
AfterLikedSongsUnchecked(songs) ==
    /\ pc' = "get_recently_played"
    /\ summary' = summary

\* if not liked_songs: return ...
AfterLikedSongs(songs) ==
    IF songs = <<>>
    THEN /\ pc' = "done"
         /\ summary' = IF entry = "analyze_and_cleanup" THEN EmptyResult
                       ELSE IF entry = "preview_cleanup" THEN EmptyPreview
                       ELSE Aborted("No liked songs found or failed to fetch")
    ELSE /\ pc' = "get_recently_played"
         /\ summary' = summary

\* a fetch that steps one short of a page
NextOffsetOverlapping(off) == off + limit - 1

\* offset += limit
NextOffset(off) == off + limit

LikedSongsCont(o) ==
    /\ IF o.kind = "raise"
       THEN pc' = "raised" /\ summary' = Exception("int") /\ UNCHANGED fetchVars
       ELSE LET items == Items(o.result) IN
            IF items = <<>>
            THEN UNCHANGED fetchVars /\ AfterLikedSongs(liked_songs)
            ELSE /\ liked_songs' = liked_songs \o items
                 /\ IF Len(items) < limit
                    THEN offset' = offset /\ AfterLikedSongs(liked_songs \o items)
                    ELSE offset' = NextOffset(offset) /\ UNCHANGED <<pc, summary>>
    /\ UNCHANGED <<feedVars, removalVars, confirmation>>

(***************************************************************************)
(* The activity feeds                                                      *)
(***************************************************************************)
RecentCont(o) ==
    /\ IF o.kind = "raise"
       THEN pc' = "raised" /\ summary' = Exception("int") /\ UNCHANGED recently_played
       ELSE pc' = "get_top_tracks_short" /\ recently_played' = Items(o.result) /\ summary' = summary
    /\ UNCHANGED <<fetchVars, short_term_top, medium_term_top, removalVars, confirmation>>

ShortCont(o) ==
    /\ IF o.kind = "raise"
       THEN pc' = "raised" /\ summary' = Exception("int") /\ UNCHANGED short_term_top
       ELSE pc' = "get_top_tracks_medium" /\ short_term_top' = Items(o.result) /\ summary' = summary
    /\ UNCHANGED <<fetchVars, recently_played, medium_term_top, removalVars, confirmation>>

MediumCont(o) ==
    /\ IF o.kind = "raise"
       THEN pc' = "raised" /\ summary' = Exception("int") /\ UNCHANGED medium_term_top
       ELSE pc' = "classify" /\ medium_term_top' = Items(o.result) /\ summary' = summary
    /\ UNCHANGED <<fetchVars, recently_played, short_term_top, removalVars, confirmation>>

\* active_track_ids / recently_played_ids
ActiveIds(recent, short, medium) == Range(recent) \cup Range(short \o medium)
active_track_ids == ActiveIds(recently_played, short_term_top, medium_term_top)

(***************************************************************************)
(* Staleness classification                                                *)
(***************************************************************************)
\* datetime.fromisoformat(added_at.replace('Z', '+00:00')).replace(tzinfo=None)
ParseRaises(added_at) == ~added_at.iso
ParseAddedAt(added_at) == added_at.t

\* cutoff_date = datetime.now() - timedelta(days=timeframe_months * 30)
cutoff_date(months) == Now - months * DaysPerMonth
\* self.six_months_ago = datetime.now() - timedelta(days=180)
six_months_ago == Now - SixMonthsDays

Planned(id, added_at) == [id |-> id, added_at |-> added_at]

\* the body of the for loop of analyze_and_cleanup / preview_cleanup on one item:
\* the plan after it, or the ValueError of fromisoformat
ServiceClassifyItem(item, active, cutoff, plan) ==
    IF ParseRaises(item.added_at) THEN [raised |-> TRUE, plan |-> plan]
    ELSE IF item.id \in active THEN [raised |-> FALSE, plan |-> plan]
    ELSE IF ParseAddedAt(item.added_at) < cutoff
    THEN [raised |-> FALSE,
          plan |-> Append(plan, Planned(item.id, ParseAddedAt(item.added_at)))]
    ELSE [raised |-> FALSE, plan |-> plan]

\* the body of the for loop of clean_liked_songs on one item
CleanerClassifyItem(item, active, cutoff, plan) ==
    IF item.id \notin active
    THEN IF ParseRaises(item.added_at)
         THEN [raised |-> FALSE, plan |-> Append(plan, Planned(item.id, item.added_at))]
         ELSE IF ParseAddedAt(item.added_at) < cutoff
         THEN [raised |-> FALSE, plan |-> Append(plan, Planned(item.id, item.added_at))]
         ELSE [raised |-> FALSE, plan |-> plan]
    ELSE [raised |-> FALSE, plan |-> plan]

\* a classifier that never consults the active set
ClassifyItemIgnoringActivity(c, item, active, cutoff, plan) ==
    IF c = "SpotifyService" THEN ServiceClassifyItem(item, {}, cutoff, plan)
    ELSE CleanerClassifyItem(item, {}, cutoff, plan)

\* a classifier that also removes an entry added exactly at the cutoff
ClassifyItemAtCutoff(c, item, active, cutoff, plan) ==
    IF c = "SpotifyService" THEN ServiceClassifyItem(item, active, cutoff + 1, plan)
    ELSE CleanerClassifyItem(item, active, cutoff + 1, plan)

\* a classifier whose preview lists the plan newest first
ClassifyItemPreviewReversed(c, item, active, cutoff, plan) ==
    LET r == IF c = "SpotifyService" THEN ServiceClassifyItem(item, active, cutoff, <<>>)
             ELSE CleanerClassifyItem(item, active, cutoff, <<>>)
    IN [raised |-> r.raised,
        plan |-> IF entry = "preview_cleanup" THEN r.plan \o plan ELSE plan \o r.plan]

ClassifyItem(c, item, active, cutoff, plan) ==
    IF c = "SpotifyService" THEN ServiceClassifyItem(item, active, cutoff, plan)
    ELSE CleanerClassifyItem(item, active, cutoff, plan)

\* the for loop over liked_songs from item i on
RECURSIVE ClassifyFrom(_, _, _, _, _, _)
ClassifyFrom(c, songs, i, active, cutoff, plan) ==
    IF i > Len(songs) THEN [raised |-> FALSE, plan |-> plan]
    ELSE LET r == ClassifyItem(c, songs[i], active, cutoff, plan) IN
         IF r.raised THEN r
         ELSE ClassifyFrom(c, songs, i + 1, active, cutoff, r.plan)

Classification ==
    ClassifyFrom(cls, liked_songs, 1, active_track_ids,
                 IF cls = "SpotifyService" THEN cutoff_date(timeframe_months)
                 ELSE six_months_ago,
                 <<>>)

\* a result that counts every analysed song as kept
CleanupResultKeepsAll(total, removed, plan) ==
    [kind |-> "result", total_liked_songs |-> total, songs_analyzed |-> total,
     songs_removed |-> removed, songs_kept |-> total,
     recent_tracks_found |-> Len(recently_played),
     top_tracks_found |-> Len(short_term_top) + Len(medium_term_top),
     removed_tracks |-> SubSeq(plan, 1, removed)]

CleanupResult(total, removed, plan) ==
    [kind |-> "result", total_liked_songs |-> total, songs_analyzed |-> total,
     songs_removed |-> removed, songs_kept |-> total - removed,
     recent_tracks_found |-> Len(recently_played),
     top_tracks_found |-> Len(short_term_top) + Len(medium_term_top),
     removed_tracks |-> SubSeq(plan, 1, removed)]

PreviewResult(total, plan) ==
    [kind |-> "preview", total_liked_songs |-> total, tracks_to_remove |-> plan,
     tracks_to_keep |-> total - Len(plan),
     recent_activity_count |-> Cardinality(active_track_ids)]

\* a classification step after which the preview goes on to the removal as well
classifyThenRemove ==
    /\ pc = "classify"
    /\ Local
    /\ LET r == Classification IN
         /\ tracks_to_remove' = r.plan
         /\ IF r.raised THEN pc' = "raised" /\ summary' = Exception("fromisoformat")
            ELSE IF entry \in {"preview_cleanup", "analyze_and_cleanup"}
            THEN IF r.plan = <<>>
                 THEN pc' = "done" /\ summary' = CleanupResult(Len(liked_songs), 0, r.plan)
                 ELSE pc' = "remove_tracks_from_liked" /\ summary' = summary
            ELSE IF r.plan = <<>>
                 THEN pc' = "done" /\ summary' = Aborted("No songs need to be removed")
                 ELSE pc' = "confirm" /\ summary' = summary
    /\ UNCHANGED <<fetchVars, feedVars, batch_start, batches, removed_count, failed_count,
                   confirmation>>

\* the classification loop and what follows it up to the first removal call
classify ==
    /\ pc = "classify"
    /\ Local
    /\ LET r == Classification IN
         /\ tracks_to_remove' = r.plan
         /\ IF r.raised THEN pc' = "raised" /\ summary' = Exception("fromisoformat")
            ELSE IF entry = "preview_cleanup"
            THEN pc' = "done" /\ summary' = PreviewResult(Len(liked_songs), r.plan)
            ELSE IF entry = "analyze_and_cleanup"
            THEN IF r.plan = <<>>
                 THEN pc' = "done" /\ summary' = CleanupResult(Len(liked_songs), 0, r.plan)
                 ELSE pc' = "remove_tracks_from_liked" /\ summary' = summary
            ELSE IF r.plan = <<>>
                 THEN pc' = "done" /\ summary' = Aborted("No songs need to be removed")
                 ELSE pc' = "confirm" /\ summary' = summary
    /\ UNCHANGED <<fetchVars, feedVars, batch_start, batches, removed_count, failed_count,
                   confirmation>>

(***************************************************************************)
(* SpotifyService.remove_tracks_from_liked and the return of               *)
(* analyze_and_cleanup                                                     *)
(***************************************************************************)
\* an id list that names the entry after each planned one
IdsOffByOne(plan) == [k \in 1..Len(plan) |-> plan[k].id + 1]

Ids(plan) == [k \in 1..Len(plan) |-> plan[k].id]

\* a slice that runs one id into the next batch
BatchOverlapping(track_ids, i) ==
    SubSeq(track_ids, i + 1, Min(i + batch_size + 1, Len(track_ids)))

\* batch = track_ids[i:i + batch_size]
Batch(track_ids, i) == SubSeq(track_ids, i + 1, Min(i + batch_size, Len(track_ids)))

\* a finished batch call: its ids, and whether the client returned {"success": True}
Issued(ids, o) == [ids |-> ids, ok |-> (o.kind = "return" /\ o.result.tag = "success")]

\* a removal loop that does not look at the response
BatchFailedIgnored(r) == FALSE

\* if not response or not response.get('success')
BatchFailed(r) == r.tag # "success"

\* removed_count as analyze_and_cleanup sets it from the boolean of remove_tracks_from_liked
RemovedCount(all_ok, plan) == IF all_ok THEN Len(plan) ELSE 0

RemoveCont(o) ==
    LET batch == Batch(Ids(tracks_to_remove), batch_start) IN
    /\ batches' = Append(batches, Issued(batch, o))
    /\ IF o.kind = "raise"
       THEN /\ pc' = "raised"
            /\ summary' = Exception("int")
            /\ UNCHANGED <<batch_start, removed_count>>
       ELSE IF BatchFailed(o.result)
       THEN /\ pc' = "done"
            /\ removed_count' = RemovedCount(FALSE, tracks_to_remove)
            /\ summary' = CleanupResult(Len(liked_songs),
                                        RemovedCount(FALSE, tracks_to_remove), tracks_to_remove)
            /\ UNCHANGED batch_start
       ELSE /\ batch_start' = batch_start + batch_size
            /\ IF batch_start + batch_size < Len(tracks_to_remove)
               THEN UNCHANGED <<pc, removed_count, summary>>
               ELSE /\ pc' = "done"
                    /\ removed_count' = RemovedCount(TRUE, tracks_to_remove)
                    /\ summary' = CleanupResult(Len(liked_songs),
                                                RemovedCount(TRUE, tracks_to_remove),
                                                tracks_to_remove)
    /\ UNCHANGED <<fetchVars, feedVars, tracks_to_remove, failed_count, confirmation>>

(***************************************************************************)
(* The cleaner's prompt and removal loop                                   *)
(***************************************************************************)
\* what may be typed at the prompt
Answers == {"yes", "y", "no", "", " YES ", "Y"}

\* input(...).lower().strip()
LowerStrip(typed) ==
    IF typed = " YES " THEN "yes" ELSE IF typed = "Y" THEN "y" ELSE typed

\* a prompt whose answer is not looked at
confirmUnchecked ==
    /\ pc = "confirm"
    /\ Local
    /\ \E answer \in Answers :
          /\ confirmation' = LowerStrip(answer)
          /\ pc' = "remove_track_from_liked"
          /\ summary' = summary
    /\ UNCHANGED <<fetchVars, feedVars, removalVars>>

confirm ==
    /\ pc = "confirm"
    /\ Local
    /\ \E answer \in Answers :
          /\ confirmation' = LowerStrip(answer)
          /\ IF LowerStrip(answer) \notin {"yes", "y"}
             THEN pc' = "done" /\ summary' = Aborted("Operation cancelled by user")
             ELSE pc' = "remove_track_from_liked" /\ summary' = summary
    /\ UNCHANGED <<fetchVars, feedVars, removalVars>>

Printed(removed, failed, processed) ==
    [kind |-> "printed", removed |-> removed, failed |-> failed, processed |-> processed,
     remaining |-> processed - removed]

\* remove_track_from_liked: response is not None and response.get("success", False)
TrackRemoved(r) == r.tag = "success"

\* a removal loop that prints its summary at the first failed call
RemoveTrackContFailFast(o) ==
    LET id == tracks_to_remove[batch_start + 1].id
        ok == TrackRemoved(o.result)
        removed == IF ok THEN removed_count + 1 ELSE removed_count
        failed == IF ok THEN failed_count ELSE failed_count + 1
    IN
    /\ batches' = Append(batches, Issued(<<id>>, o))
    /\ removed_count' = removed
    /\ failed_count' = failed
    /\ batch_start' = batch_start + 1
    /\ IF ok /\ batch_start + 1 < Len(tracks_to_remove)
       THEN UNCHANGED <<pc, summary>>
       ELSE pc' = "done" /\ summary' = Printed(removed, failed, Len(liked_songs))
    /\ UNCHANGED <<fetchVars, feedVars, tracks_to_remove, confirmation>>

RemoveTrackCont(o) ==
    LET id == tracks_to_remove[batch_start + 1].id
        ok == TrackRemoved(o.result)
        removed == IF ok THEN removed_count + 1 ELSE removed_count
        failed == IF ok THEN failed_count ELSE failed_count + 1
    IN
    /\ batches' = Append(batches, Issued(<<id>>, o))
    /\ removed_count' = removed
    /\ failed_count' = failed
    /\ batch_start' = batch_start + 1
    /\ IF batch_start + 1 < Len(tracks_to_remove)
       THEN UNCHANGED <<pc, summary>>
       ELSE pc' = "done" /\ summary' = Printed(removed, failed, Len(liked_songs))
    /\ UNCHANGED <<fetchVars, feedVars, tracks_to_remove, confirmation>>

(***************************************************************************)
(* A client call made by a run: the iterations of its loop are steps of    *)
(* the run, and the caller goes on with the call's outcome in the step     *)
(* that ends the call                                                      *)
(***************************************************************************)
\* what the caller at pc does with the outcome of its call
Caller(o) ==
    CASE pc = "get_user_profile" -> ProfileCont(o)
      [] pc = "get_liked_songs" -> LikedSongsCont(o)
      [] pc = "get_recently_played" -> RecentCont(o)
      [] pc = "get_top_tracks_short" -> ShortCont(o)
      [] pc = "get_top_tracks_medium" -> MediumCont(o)
      [] pc = "remove_tracks_from_liked" -> RemoveCont(o)
      [] pc = "remove_track_from_liked" -> RemoveTrackCont(o)

Call(req) ==
    /\ \E resp \in Responses : \E refreshOk \in RefreshOutcomes(resp) :
          LET o == Outcome(req, resp, refreshOk) IN
            /\ ClientStep(req, resp, o)
            /\ IF o.kind = "continue" THEN UNCHANGED <<pc, runVars>> ELSE Caller(o)
    /\ UNCHANGED <<cls, entry, request, trace, result, library0, feeds, timeframe_months,
                   routeVars, oauthVars>>

get_user_profile ==
    /\ pc = "get_user_profile"
    /\ Call(Req("GET", "/me", 0, "", <<>>))

get_liked_songs ==
    /\ pc = "get_liked_songs"
    /\ Call(Req("GET", "/me/tracks", offset, "", <<>>))

get_recently_played ==
    /\ pc = "get_recently_played"
    /\ Call(Req("GET", "/me/player/recently-played", 0, "", <<>>))

get_top_tracks_short ==
    /\ pc = "get_top_tracks_short"
    /\ Call(Req("GET", "/me/top/tracks", 0, "short_term", <<>>))

get_top_tracks_medium ==
    /\ pc = "get_top_tracks_medium"
    /\ Call(Req("GET", "/me/top/tracks", 0, "medium_term", <<>>))

\* a removal loop that reads the first library page again instead of deleting
remove_tracks_from_likedRereads ==
    /\ pc = "remove_tracks_from_liked"
    /\ Call(Req("GET", "/me/tracks", 0, "", <<>>))

remove_tracks_from_liked ==
    /\ pc = "remove_tracks_from_liked"
    /\ Call(Req("DELETE", "/me/tracks", 0, "", Batch(Ids(tracks_to_remove), batch_start)))

remove_track_from_liked ==
    /\ pc = "remove_track_from_liked"
    /\ Call(Req("DELETE", "/me/tracks", 0, "", <<tracks_to_remove[batch_start + 1].id>>))

(***************************************************************************)
(* The runs                                                                *)
(***************************************************************************)
Timeframes == {1, 6}

\* added_at values around the cutoff of a timeframe, and an unparsable one
HeadStamps(months) ==
    {Stamp(cutoff_date(months) - 1), Stamp(cutoff_date(months)),
     Stamp(cutoff_date(months) + 1), BadStamp}

Heads(months) == UNION {[1..n -> HeadStamps(months)] : n \in 0..MaxHead}

\* pad lengths: up to three pages and three batches for analyze_and_cleanup, two pages
\* for the other entry points
PadSizes(e) == IF e = "analyze_and_cleanup" THEN {0, limit, 2 * limit} ELSE {0, limit}

\* a library: the head, then pad entries that all carry one time stamp; ids are positions
Library(head, pad, padStamp) ==
    [i \in 1..(Len(head) + pad) |->
        IF i <= Len(head) THEN Liked(i, head[i]) ELSE Liked(i, padStamp)]

FeedChoices ==
    { NoFeeds,
      [recent |-> <<2, 1>>, short |-> <<1>>, medium |-> <<3>>] }

InitRun(c, e, months, padStamp) ==
    /\ cls = c
    /\ entry = e
    /\ pc = IF c = "SpotifyService" THEN "get_liked_songs" ELSE "get_user_profile"
    /\ timeframe_months = months
    /\ \E head \in Heads(months), pad \in PadSizes(e) : remote = Library(head, pad, padStamp)
    /\ library0 = remote
    /\ feeds \in FeedChoices
    /\ access_token = "initial"
    /\ attempt = 0
    /\ request = NoRequest
    /\ wire = NoRequest
    /\ trace = <<>>
    /\ result = None
    /\ RunVarsInit
    /\ cleanup_sessions = <<>>
    /\ handlers = <<>>
    /\ OAuthInit

Init ==
    \/ \E months \in Timeframes :
          InitRun("SpotifyService", "analyze_and_cleanup", months,
                  Stamp(cutoff_date(months) - 1))
    \/ \E months \in Timeframes :
          InitRun("SpotifyService", "preview_cleanup", months,
                  Stamp(cutoff_date(months) - 1))
    \/ InitRun("SpotifyLikedSongsCleaner", "clean_liked_songs", 6, Stamp(Now))

Next ==
    \/ get_user_profile
    \/ get_liked_songs
    \/ get_recently_played
    \/ get_top_tracks_short
    \/ get_top_tracks_medium
    \/ classify
    \/ remove_tracks_from_liked
    \/ confirm
    \/ remove_track_from_liked

Spec == Init /\ [][Next]_vars

(***************************************************************************)
(* The POST /cleanup/start route.  The WSGI server serves each request in   *)
(* a thread of its own, so handlers of several requests interleave; the     *)
(* run a handler starts is one call here, ending with a result or with an   *)
(* exception.                                                               *)
(***************************************************************************)
MaxRequests == 3     \* POST /cleanup/start requests served

\* the rows of the users table, and what session.get('user_id') may hold: nothing, the
\* id of a row, or the id of a row that is gone
Users == {"u1", "u2"}
NoUser == "none"
SessionUserIds == Users \cup {NoUser, "gone"}

\* CleanupSession(user_id=..., status=...); completed_at is NULL (FALSE) or set (TRUE)
CleanupSession(user_id, status, completed_at) ==
    [user_id |-> user_id, status |-> status, completed_at |-> completed_at]

\* a request being served: the session's user, the handler's position, the id of its
\* session_record (0 before it has one) and the status of its HTTP response (0 before)
Handler(user_id, at, session_record, response) ==
    [user_id |-> user_id, pc |-> at, session_record |-> session_record,
     response |-> response]

RunUnchanged ==
    UNCHANGED <<cls, entry, pc, timeframe_months, remote, library0, feeds, access_token,
                attempt, request, wire, trace, result, runVars, auth_expired>>

\* start_cleanup up to the call of analyze_and_cleanup: the two early returns, or the
\* 'started' row added and committed
start_cleanup ==
    /\ entry = "start_cleanup"
    /\ Len(handlers) < MaxRequests
    /\ \E user_id \in SessionUserIds :
          IF user_id = NoUser
          THEN /\ handlers' = Append(handlers, Handler(user_id, "returned", 0, 401))
               /\ UNCHANGED cleanup_sessions
          ELSE IF user_id \notin Users
          THEN /\ handlers' = Append(handlers, Handler(user_id, "returned", 0, 404))
               /\ UNCHANGED cleanup_sessions
          ELSE /\ cleanup_sessions' = Append(cleanup_sessions,
                                             CleanupSession(user_id, "started", FALSE))
               /\ handlers' = Append(handlers,
                                     Handler(user_id, "analyze_and_cleanup",
                                             Len(cleanup_sessions) + 1, 0))
    /\ RunUnchanged
    /\ UNCHANGED oauthVars

\* a handler without the except branch: an exception of the run leaves the row as it is
analyze_and_cleanup_returnsUncaught ==
    /\ entry = "start_cleanup"
    /\ \E h \in 1..Len(handlers) :
          /\ handlers[h].pc = "analyze_and_cleanup"
          /\ \E raised \in BOOLEAN :
                /\ cleanup_sessions' =
                     IF raised THEN cleanup_sessions
                     ELSE [cleanup_sessions EXCEPT ![handlers[h].session_record] =
                             CleanupSession(handlers[h].user_id, "completed", TRUE)]
                /\ handlers' = [handlers EXCEPT ![h].pc = "returned",
                                                ![h].response = IF raised THEN 500 ELSE 200]
    /\ RunUnchanged
    /\ UNCHANGED oauthVars

\* analyze_and_cleanup returns and the row is marked completed, or it raises and the
\* except branch marks the row failed; both set completed_at
analyze_and_cleanup_returns ==
    /\ entry = "start_cleanup"
    /\ \E h \in 1..Len(handlers) :
          /\ handlers[h].pc = "analyze_and_cleanup"
          /\ \E raised \in BOOLEAN :
                /\ cleanup_sessions' =
                     [cleanup_sessions EXCEPT ![handlers[h].session_record] =
                         CleanupSession(handlers[h].user_id,
                                        IF raised THEN "failed" ELSE "completed", TRUE)]
                /\ handlers' = [handlers EXCEPT ![h].pc = "returned",
                                                ![h].response = IF raised THEN 500 ELSE 200]
    /\ RunUnchanged
    /\ UNCHANGED oauthVars

InitRoutes ==
    /\ cls = "SpotifyService"
    /\ entry = "start_cleanup"
    /\ pc = "routes"
    /\ timeframe_months = 6
    /\ remote = <<>>
    /\ library0 = <<>>
    /\ feeds = NoFeeds
    /\ access_token = "initial"
    /\ attempt = 0
    /\ request = NoRequest
    /\ wire = NoRequest
    /\ trace = <<>>
    /\ result = None
    /\ RunVarsInit
    /\ cleanup_sessions = <<>>
    /\ handlers = <<>>
    /\ OAuthInit

NextRoutes ==
    \/ start_cleanup
    \/ analyze_and_cleanup_returns

SpecRoutes == InitRoutes /\ [][NextRoutes]_vars

(***************************************************************************)
(* The OAuth routes /login and /callback, as one browser session sees      *)
(* them.  The browser requests /callback with whatever query string the    *)
(* link it follows carries.                                                *)
(***************************************************************************)
MaxExchanges == 2     \* calls of exchange_code_for_tokens

\* secrets.token_urlsafe(32)
OAuthStates == {"s1", "s2"}

\* the query parameters of a /callback request
ErrorParams == {Missing, "access_denied"}
CodeParams == {Missing, "code"}
StateParams == OAuthStates \cup {Missing}

Exchange(code, ok) == [code |-> code, ok |-> ok]

login ==
    /\ entry = "callback"
    /\ \E state \in OAuthStates : session' = [session EXCEPT !.oauth_state = state]
    /\ callback_args' = NoArgs
    /\ UNCHANGED exchanges
    /\ RunUnchanged
    /\ UNCHANGED routeVars

\* callback: the three early returns, then the token exchange; session['user_id'] is
\* set when exchange_code_for_tokens and get_spotify_user_info return, and the except
\* branch leaves the session as it is
callback ==
    /\ entry = "callback"
    /\ Len(exchanges) < MaxExchanges
    /\ \E error \in ErrorParams, code \in CodeParams, state \in StateParams :
          /\ callback_args' = Args("callback", error, code, state)
          /\ IF error # Missing THEN UNCHANGED <<session, exchanges>>
             ELSE IF state # session.oauth_state THEN UNCHANGED <<session, exchanges>>
             ELSE IF code = Missing THEN UNCHANGED <<session, exchanges>>
             ELSE \/ \E user_id \in Users :
                        /\ exchanges' = Append(exchanges, Exchange(code, TRUE))
                        /\ session' = [session EXCEPT !.user_id = user_id]
                  \/ /\ exchanges' = Append(exchanges, Exchange(code, FALSE))
                     /\ UNCHANGED session
    /\ RunUnchanged
    /\ UNCHANGED routeVars

InitOAuth ==
    /\ cls = "SpotifyService"
    /\ entry = "callback"
    /\ pc = "routes"
    /\ timeframe_months = 6
    /\ remote = <<>>
    /\ library0 = <<>>
    /\ feeds = NoFeeds
    /\ access_token = "initial"
    /\ attempt = 0
    /\ request = NoRequest
    /\ wire = NoRequest
    /\ trace = <<>>
    /\ result = None
    /\ RunVarsInit
    /\ cleanup_sessions = <<>>
    /\ handlers = <<>>
    /\ OAuthInit

NextOAuth ==
    \/ login
    \/ callback

SpecOAuth == InitOAuth /\ [][NextOAuth]_vars

(***************************************************************************)
(* Properties of the classification                                        *)
(***************************************************************************)
InPlan(id) == \E k \in 1..Len(tracks_to_remove) : tracks_to_remove[k].id = id

\* the classification loop ran to its end
Classified ==
    \/ pc \in {"remove_tracks_from_liked", "confirm", "remove_track_from_liked"}
    \/ pc = "done" /\ liked_songs # <<>>

\* the classification loop was left by the ValueError of fromisoformat
ClassifierRaised == pc = "raised" /\ summary = Exception("fromisoformat")

\* the classification loop ran its body on liked_songs[i]
Examined(i) ==
    \/ Classified
    \/ ClassifierRaised /\ \A j \in 1..(i - 1) : ~ParseRaises(liked_songs[j].added_at)

Old(item) == ~ParseRaises(item.added_at) /\ item.added_at.t < Now - timeframe_months * 30

\* C1: a liked entry whose id is in the run's active set is never in the removal plan,
\* however old it is: no planned id is an active id, in any state of any run (the plan
\* a raising classification leaves behind included).
C1_ActiveNeverPlanned ==
    \A k \in 1..Len(tracks_to_remove) : tracks_to_remove[k].id \notin active_track_ids

\* a finished classification that planned something and kept an old, active entry
C1_Witness ==
    /\ Classified
    /\ tracks_to_remove # <<>>
    /\ \E i \in 1..Len(liked_songs) :
          /\ liked_songs[i].id \in active_track_ids
          /\ Old(liked_songs[i])
          /\ ~InPlan(liked_songs[i].id)

\* C2: an entry the classifier examined, that is not active and whose added_at parses,
\* is in the removal plan exactly if added_at < now - timeframe_months * 30 days
\* (clean_liked_songs has the fixed timeframe of 6 months); at the cutoff it is kept.
C2_PlannedIffBeforeCutoff ==
    \A i \in 1..Len(liked_songs) :
        ( /\ Examined(i)
          /\ liked_songs[i].id \notin active_track_ids
          /\ ~ParseRaises(liked_songs[i].added_at) )
        => ( InPlan(liked_songs[i].id)
             <=> liked_songs[i].added_at.t < Now - timeframe_months * 30 )

\* a finished classification with an inactive entry exactly at the cutoff (kept) and an
\* inactive entry one day older (planned)
C2_Witness ==
    /\ Classified
    /\ \E i, j \in 1..Len(liked_songs) :
          /\ liked_songs[i].id \notin active_track_ids
          /\ liked_songs[j].id \notin active_track_ids
          /\ liked_songs[i].added_at = Stamp(Now - timeframe_months * 30)
          /\ liked_songs[j].added_at = Stamp(Now - timeframe_months * 30 - 1)
          /\ ~InPlan(liked_songs[i].id)
          /\ InPlan(liked_songs[j].id)

\* C3: an entry that is not active and whose added_at cannot be parsed is put in the
\* removal plan and the run goes on: when no active entry is malformed either, the
\* classification does not raise and plans every malformed entry.
C3_MalformedIsPlanned ==
    ( /\ Classified \/ ClassifierRaised
      /\ \A j \in 1..Len(liked_songs) :
            ParseRaises(liked_songs[j].added_at) => liked_songs[j].id \notin active_track_ids )
    => ( /\ ~ClassifierRaised
         /\ \A i \in 1..Len(liked_songs) :
               ParseRaises(liked_songs[i].added_at) => InPlan(liked_songs[i].id) )

\* C4: an active entry is kept without its time stamp being parsed: when every
\* malformed entry of the list is active, the classification does not raise and keeps
\* them all.
C4_ActiveNeverParsed ==
    ( /\ Classified \/ ClassifierRaised
      /\ \A j \in 1..Len(liked_songs) :
            ParseRaises(liked_songs[j].added_at) => liked_songs[j].id \in active_track_ids )
    => ( /\ ~ClassifierRaised
         /\ \A i \in 1..Len(liked_songs) :
               liked_songs[i].id \in active_track_ids => ~InPlan(liked_songs[i].id) )

(***************************************************************************)
(* Properties of the batch removal of analyze_and_cleanup                  *)
(***************************************************************************)
RECURSIVE IdsRemoved(_, _)
\* the number of ids in the successful batches among the first n
IdsRemoved(log, n) ==
    IF n = 0 THEN 0
    ELSE IdsRemoved(log, n - 1) + (IF log[n].ok THEN Len(log[n].ids) ELSE 0)

CeilDiv(n, d) == (n + d - 1) \div d

AllBatchesOk == \A k \in 1..Len(batches) : batches[k].ok

\* C5: when k >= 1 batches succeeded and batch k+1 failed, analyze_and_cleanup reports
\* songs_removed = the number of ids in the k successful batches.
C5_PartialRemovalCounted ==
    ( /\ entry = "analyze_and_cleanup"
      /\ pc = "done"
      /\ Len(batches) >= 2
      /\ ~batches[Len(batches)].ok )
    => summary.songs_removed = IdsRemoved(batches, Len(batches))

\* C6: remove_tracks_from_liked is fail-fast: a step of analyze_and_cleanup sends a
\* DELETE only if every batch call finished so far succeeded, the DELETE carries the
\* next batch of the plan, and no request other than GET and DELETE (no re-add) is
\* ever sent.
C6_FailFast ==
    [][ (entry = "analyze_and_cleanup" /\ wire'.method # "none")
        => /\ wire'.method \in {"GET", "DELETE"}
           /\ wire'.method = "DELETE"
                => /\ AllBatchesOk
                   /\ wire'.ids = SubSeq(Ids(tracks_to_remove), 50 * Len(batches) + 1,
                                         Min(50 * Len(batches) + 50, Len(tracks_to_remove)))
      ]_vars

\* a removal of three planned batches that stopped at the failure of the second
C6_Witness ==
    /\ entry = "analyze_and_cleanup"
    /\ pc = "done"
    /\ Len(tracks_to_remove) > 100
    /\ Len(batches) = 2
    /\ batches[1].ok
    /\ ~batches[2].ok

\* C7: the k-th batch call carries the plan's ids at positions 50(k-1)+1 .. min(50k, N),
\* and a removal in which every batch succeeds issues exactly ceil(N/50) batch calls.
C7_BatchPartition ==
    entry = "analyze_and_cleanup"
    => /\ \A k \in 1..Len(batches) :
             batches[k].ids = SubSeq(Ids(tracks_to_remove), 50 * (k - 1) + 1,
                                     Min(50 * k, Len(tracks_to_remove)))
       /\ (pc = "done" /\ tracks_to_remove # <<>> /\ AllBatchesOk)
             => Len(batches) = CeilDiv(Len(tracks_to_remove), 50)

\* a fully successful removal of a plan of more than 100 ids whose third batch is short
C7_Witness ==
    /\ entry = "analyze_and_cleanup"
    /\ pc = "done"
    /\ AllBatchesOk
    /\ Len(batches) = 3
    /\ Len(batches[3].ids) < 50
    /\ Len(tracks_to_remove) = 100 + Len(batches[3].ids)

(***************************************************************************)
(* Properties of one client call                                           *)
(***************************************************************************)
IsRecv(e) == e.ev = "recv"
IsSend(e) == e.ev = "send"
Received == SelectSeq(trace, IsRecv)
Sends == SelectSeq(trace, IsSend)

\* what a 200 with a JSON body carries for the call's request
CallPayload == ServerPayload(library0, feeds, request)

\* C8: a 429 never makes the client return failure: whatever the number of consecutive
\* 429 responses (with well-formed Retry-After headers), the call has not returned: it
\* sleeps and resends until the first response that is not a 429.
C8_RateLimitNeverFails ==
    ( /\ Len(Received) >= 1
      /\ \A k \in 1..Len(Received) :
            /\ ~Received[k].resp.err
            /\ Received[k].resp.status = 429
            /\ ~RetryAfterRaises(Received[k].resp.ra) )
    => pc = "call"

\* C9: a request answered 429 with Retry-After: 2 and then 200 is sent exactly twice,
\* the same both times, with a sleep of at least 2 seconds between the 429 and the
\* resend, and the call returns the payload of the 200.
C9_RetryAfterTwo ==
    ( /\ Len(Received) = 2
      /\ Received[1].resp = Http(429, "", "2")
      /\ Received[2].resp = Http(200, "json", "") )
    => /\ pc = "returned"
       /\ result = Json(CallPayload)
       /\ Len(trace) = 5
       /\ IsSend(trace[1]) /\ IsRecv(trace[2])
       /\ trace[3].ev = "sleep" /\ trace[3].secs >= 2
       /\ IsSend(trace[4]) /\ trace[4].req = trace[1].req
       /\ IsRecv(trace[5])

\* a GET of the first library page answered 429 (Retry-After: 2), then 200
C9_Witness ==
    /\ pc = "returned"
    /\ request.method = "GET"
    /\ Len(Received) = 2
    /\ Received[1].resp = Http(429, "", "2")
    /\ Received[2].resp = Http(200, "json", "")
    /\ result.items = library0

AllNetworkErrors(n) == \A k \in 1..n : Received[k].resp.err

\* C10: a call whose every attempt raises a network error sends exactly 3 requests,
\* sleeps at least 1 second between consecutive attempts and returns None; a network
\* error on attempt 1 or 2 followed by a 200 returns the payload of the 200.
C10_NetworkErrorRetries ==
    /\ Len(Sends) <= 3
    /\ (Len(Received) < 3 /\ AllNetworkErrors(Len(Received))) => pc = "call"
    /\ (Len(Received) = 3 /\ AllNetworkErrors(3))
         => /\ pc = "returned"
            /\ result = None
            /\ Len(Sends) = 3
            /\ Len(trace) = 8
            /\ trace[3].ev = "sleep" /\ trace[3].secs >= 1
            /\ trace[6].ev = "sleep" /\ trace[6].secs >= 1
    /\ ( /\ Len(Received) \in {2, 3}
         /\ AllNetworkErrors(Len(Received) - 1)
         /\ Received[Len(Received)].resp = Http(200, "json", "") )
         => pc = "returned" /\ result = Json(CallPayload)

\* a call that gave up after three network errors
C10_Witness ==
    /\ pc = "returned"
    /\ Len(Received) = 3
    /\ AllNetworkErrors(3)
    /\ result = None

(***************************************************************************)
(* Properties of the 401 branch of one client call                         *)
(***************************************************************************)
IsRefresh(e) == e.ev = "refresh"
Refreshes == SelectSeq(trace, IsRefresh)

Unauthorized == Http(401, "", "")

\* C11: a call whose first response is a 401 runs the token exchange; when the exchange
\* succeeds the call goes on, the resend is the original request under the new access
\* token, and a 200 answering the resend makes the call return the payload of the 200.
C11_RefreshAndResend ==
    (Len(Received) >= 1 /\ Received[1].resp = Unauthorized)
    => /\ Len(trace) >= 3
       /\ IsRefresh(trace[3])
       /\ trace[3].secs = 1
            => /\ Len(trace) = 3 => pc = "call"
               /\ Len(trace) > 3
                    => /\ IsSend(trace[4])
                       /\ trace[4].req = [request EXCEPT !.token = "refreshed"]
               /\ (Len(Received) = 2 /\ Received[2].resp = Http(200, "json", ""))
                    => pc = "returned" /\ result = Json(CallPayload)

\* C12: one client call runs the token exchange at most once: when the request resent
\* after a successful exchange is answered 401 again, the call returns failure without a
\* second exchange.
C12_RetriedOnce ==
    /\ Len(Refreshes) <= 1
    /\ ( /\ Len(Received) >= 2
         /\ Received[1].resp = Unauthorized
         /\ Received[2].resp = Unauthorized )
         => pc = "returned" /\ result = None

(***************************************************************************)
(* Properties of the runs under failing requests                           *)
(***************************************************************************)
\* the run came back with a result dictionary (or the cleaner with its printed summary)
CompletedResult == summary.kind \in {"result", "preview", "printed"}

\* C13: a 401 that leaves the client without a new token aborts the run: the run is over
\* without a completed result, and the step after it sends no request.
C13_AuthFailureAborts ==
    /\ [](auth_expired => (pc \in {"done", "raised"} /\ ~CompletedResult))
    /\ [][auth_expired => wire' = NoRequest]_vars

\* get_liked_songs has returned (or raised)
FetchOver == pc \notin {"get_user_profile", "get_liked_songs"}

\* get_liked_songs ended on a failed page request with part of the library unfetched:
\* the remote answers every page it serves with the true page, so only a failed request
\* ends the fetch short of the library
PartialList == FetchOver /\ Len(liked_songs) < Len(library0)

\* C14: a failed page request of the library fetch is fatal to analyze_and_cleanup and
\* preview_cleanup: the run is over without a completed result, and no DELETE was issued
\* on the partial list.
C14_PageFailureIsFatal ==
    (entry \in {"analyze_and_cleanup", "preview_cleanup"} /\ PartialList)
    => /\ pc \in {"done", "raised"}
       /\ ~CompletedResult
       /\ batches = <<>>

\* C15: a 204 ends the call with success and no payload, whatever came before it.
C15_NoContentIsSuccess ==
    (Len(Received) >= 1 /\ Received[Len(Received)].resp = Http(204, "", ""))
    => pc = "returned" /\ result = Success

(***************************************************************************)
(* Properties of the results and of the library fetch                      *)
(***************************************************************************)
\* C16: in every result of analyze_and_cleanup songs_removed + songs_kept =
\* songs_analyzed = total_liked_songs, and in every result of preview_cleanup
\* len(tracks_to_remove) + tracks_to_keep = total_liked_songs.
C16_CountsAddUp ==
    /\ summary.kind = "result"
         => /\ summary.songs_removed + summary.songs_kept = summary.songs_analyzed
            /\ summary.songs_analyzed = summary.total_liked_songs
    /\ summary.kind = "preview"
         => Len(summary.tracks_to_remove) + summary.tracks_to_keep
              = summary.total_liked_songs

\* a completed run that removed some songs and kept others
C16_Witness ==
    /\ pc = "done"
    /\ summary.kind = "result"
    /\ summary.songs_removed > 0
    /\ summary.songs_kept > 0

\* the latest step sent a page request of get_liked_songs
PageRequested == wire.method = "GET" /\ wire.endpoint = "/me/tracks"

\* C17: every page request carries an offset that is a multiple of 50 and equals the
\* number of songs received so far; the fetch goes on to the next offset only after a
\* page of 50 items and stops after a page of fewer (or none); the list it holds is the
\* start of the library, in order, nothing dropped or duplicated.
C17_Pagination ==
    /\ liked_songs = SubSeq(library0, 1, Len(liked_songs))
    /\ pc = "get_liked_songs" => offset = Len(liked_songs)
    /\ PageRequested
         => /\ wire.offset % limit = 0
            /\ (pc = "get_liked_songs" /\ attempt > 0) => offset = wire.offset
            /\ (pc = "get_liked_songs" /\ attempt = 0) => offset = wire.offset + limit
            /\ pc # "get_liked_songs" => Len(liked_songs) - wire.offset \in 0..(limit - 1)

\* a fetch of three pages (50, 50 and 2 items) that has just returned the whole library
C17_Witness ==
    /\ PageRequested
    /\ wire.offset = 2 * limit
    /\ pc = "get_recently_played"
    /\ Len(liked_songs) = 2 * limit + 2
    /\ liked_songs = library0

(***************************************************************************)
(* Properties of the activity feeds and of the preview                     *)
(***************************************************************************)
\* the latest step sent a request for one of the three activity feeds
FeedRequested ==
    wire.method = "GET" /\ wire.endpoint \in {"/me/player/recently-played", "/me/top/tracks"}

\* C18: a failed feed request does not abort the run: a source holds the items of its
\* feed or, when its request failed, nothing; the active set is the union of the ids the
\* sources hold; and after a feed request the run is at a feed request or at the
\* classification, whatever the answer was.
C18_FeedFailureTolerated ==
    /\ recently_played \in {<<>>, feeds.recent}
    /\ short_term_top \in {<<>>, feeds.short}
    /\ medium_term_top \in {<<>>, feeds.medium}
    /\ active_track_ids
         = Range(recently_played) \cup Range(short_term_top) \cup Range(medium_term_top)
    /\ FeedRequested
         => pc \in {"get_recently_played", "get_top_tracks_short", "get_top_tracks_medium",
                    "classify"}

\* C19: a preview_cleanup run sends GET requests only, issues no batch, and leaves the
\* remote liked library as it found it, whatever the remote answers.
C19_PreviewReadsOnly ==
    entry = "preview_cleanup"
    => /\ wire.method \in {"none", "GET"}
       /\ batches = <<>>
       /\ remote = library0

\* a preview that returned a plan of songs to remove
C19_Witness ==
    /\ entry = "preview_cleanup"
    /\ pc = "done"
    /\ summary.kind = "preview"
    /\ Len(summary.tracks_to_remove) > 0
    /\ remote = library0

(***************************************************************************)
(* Properties of the routes                                                *)
(***************************************************************************)
\* handler h is between the commit of its 'started' row and the marking of that row
RunInProgress(h) == handlers[h].pc = "analyze_and_cleanup"

\* C20: no two requests of one user are in a cleanup run at the same time; equally, the
\* table never holds two 'started' rows of one user.
C20_OneRunPerUser ==
    /\ \A h1, h2 \in 1..Len(handlers) :
          (h1 # h2 /\ RunInProgress(h1) /\ RunInProgress(h2))
          => handlers[h1].user_id # handlers[h2].user_id
    /\ \A r1, r2 \in 1..Len(cleanup_sessions) :
          ( /\ r1 # r2
            /\ cleanup_sessions[r1].status = "started"
            /\ cleanup_sessions[r2].status = "started" )
          => cleanup_sessions[r1].user_id # cleanup_sessions[r2].user_id

(***************************************************************************)
(* Properties of the order of requests and of the empty library            *)
(***************************************************************************)
\* the positions of a run at which it reads: the library fetch, the feeds, and the
\* classification that follows them
ReadStage ==
    pc \in {"get_user_profile", "get_liked_songs", "get_recently_played",
            "get_top_tracks_short", "get_top_tracks_medium", "classify"}

\* C21: in an analyze_and_cleanup run every GET comes before every DELETE.  wire is the
\* request of the latest step, so the statement is over every request of the run: when
\* it is a DELETE the run is past the fetch, the feeds and the classification, the plan
\* is the one the classification computed from the lists fetched, and when it is a GET
\* no DELETE call has been made or is in progress.
C21_ReadsBeforeWrites ==
    entry = "analyze_and_cleanup"
    => /\ wire.method = "DELETE"
            => /\ ~ReadStage
               /\ tracks_to_remove = Classification.plan
               /\ liked_songs = SubSeq(library0, 1, Len(liked_songs))
       /\ wire.method = "GET"
            => /\ batches = <<>>
               /\ pc # "remove_tracks_from_liked"
               /\ remote = library0
       /\ (pc = "remove_tracks_from_liked" \/ batches # <<>>) => wire.method \in {"none", "DELETE"}

\* a run that fetched two pages and the feeds and is sending its second DELETE batch
C21_Witness ==
    /\ entry = "analyze_and_cleanup"
    /\ wire.method = "DELETE"
    /\ Len(liked_songs) > limit
    /\ Len(batches) = 2
    /\ recently_played # <<>>

\* the fetch returned an empty list
EmptyFetch == FetchOver /\ pc # "raised" /\ liked_songs = <<>>

\* C22: when get_liked_songs returns an empty list, analyze_and_cleanup and
\* preview_cleanup return at once with every count 0 and an empty list of tracks, and
\* no request follows the page request: no feed request and no DELETE.
C22_EmptyLibrary ==
    (entry \in {"analyze_and_cleanup", "preview_cleanup"} /\ EmptyFetch)
    => /\ pc = "done"
       /\ PageRequested
       /\ batches = <<>>
       /\ remote = library0
       /\ summary.total_liked_songs = 0
       /\ entry = "analyze_and_cleanup"
            => /\ summary.kind = "result"
               /\ summary.songs_analyzed = 0
               /\ summary.songs_removed = 0
               /\ summary.songs_kept = 0
               /\ summary.removed_tracks = <<>>
       /\ entry = "preview_cleanup"
            => /\ summary.kind = "preview"
               /\ summary.tracks_to_remove = <<>>
               /\ summary.tracks_to_keep = 0

\* an analyze_and_cleanup run on an empty library whose page request was answered 200
C22_Witness ==
    /\ entry = "analyze_and_cleanup"
    /\ library0 = <<>>
    /\ EmptyFetch
    /\ summary = EmptyResult
    /\ ~auth_expired

(***************************************************************************)
(* Properties of the removal plan and of what is reported removed          *)
(***************************************************************************)
\* the ids of the batch calls that returned {"success": True}
SucceededIds ==
    UNION {Range(batches[k].ids) : k \in {j \in 1..Len(batches) : batches[j].ok}}

\* C23: removed_tracks of a result is a prefix of the removal plan, has songs_removed
\* entries, and holds exactly the planned tracks whose batch call succeeded.
C23_RemovedTracksAreTheSucceeded ==
    (entry = "analyze_and_cleanup" /\ pc = "done" /\ summary.kind = "result")
    => /\ Len(summary.removed_tracks) <= Len(tracks_to_remove)
       /\ summary.removed_tracks
            = SubSeq(tracks_to_remove, 1, Len(summary.removed_tracks))
       /\ Len(summary.removed_tracks) = summary.songs_removed
       /\ Range(Ids(summary.removed_tracks)) = SucceededIds

\* an entry of the liked list that is not active and was added before the cutoff
StaleEntry(item) ==
    /\ item.id \notin active_track_ids
    /\ ~ParseRaises(item.added_at)
    /\ ParseAddedAt(item.added_at) < cutoff_date(timeframe_months)

\* the ids of the stale entries of the liked list, in the order of the liked list: a
\* function of the liked list, the feed responses and the cutoff alone
StaleIds == Ids(SelectSeq(liked_songs, StaleEntry))

\* C24: whichever of the two entry points runs, the plan it builds from a liked list,
\* feed responses and a cutoff is the same list of ids, in the order of the liked list:
\* preview_cleanup returns it as tracks_to_remove, and every DELETE of
\* analyze_and_cleanup carries a batch of it.
C24_PreviewPlanIsCleanupPlan ==
    (cls = "SpotifyService" /\ Classified)
    => /\ Ids(tracks_to_remove) = StaleIds
       /\ summary.kind = "preview" => Ids(summary.tracks_to_remove) = StaleIds
       /\ wire.method = "DELETE"
            => \E i \in 0..Len(StaleIds) : wire.ids = Batch(StaleIds, i)

\* a preview whose plan has several entries and leaves out entries of the liked list
C24_Witness ==
    /\ entry = "preview_cleanup"
    /\ pc = "done"
    /\ summary.kind = "preview"
    /\ Len(summary.tracks_to_remove) >= 2
    /\ summary.tracks_to_keep > 0
    /\ active_track_ids # {}

LastResponse == Received[Len(Received)].resp

\* C26: one client call sends at most 3 requests and always returns: while it has sent
\* fewer than 3 it may still be in progress, after the third it is over, it never ends
\* in an exception, and it returns a result when its last response is a 204 or a 200
\* with a JSON body and None when its last response is neither a 200 nor a 204.
C26_ThreeAttemptsAlwaysReturns ==
    /\ Len(Sends) <= MaxAttempts
    /\ Len(Sends) = MaxAttempts => pc # "call"
    /\ pc # "raised"
    /\ pc = "returned"
         => /\ LastResponse = Http(204, "", "") => result = Success
            /\ LastResponse = Http(200, "json", "") => result = Json(CallPayload)
            /\ (LastResponse.err \/ LastResponse.status \notin {200, 204}) => result = None

(***************************************************************************)
(* Properties of the CleanupSession rows                                   *)
(***************************************************************************)
\* the row of a handler that created one
SessionRecord(h) == cleanup_sessions[handlers[h].session_record]

\* C27: when a handler that created a CleanupSession row has returned, the row is
\* 'completed' or 'failed' with completed_at set, and it is 'completed' only if the run
\* returned without raising (the handler answered 200); a row's status changes only
\* from 'started', to 'completed' or to 'failed', and rows are never dropped.
C27_SessionStatus ==
    /\ [](\A h \in 1..Len(handlers) :
             (handlers[h].session_record # 0 /\ handlers[h].pc = "returned")
             => /\ SessionRecord(h).status \in {"completed", "failed"}
                /\ SessionRecord(h).completed_at
                /\ SessionRecord(h).status = "completed" <=> handlers[h].response = 200)
    /\ [][ /\ Len(cleanup_sessions') >= Len(cleanup_sessions)
           /\ \A r \in 1..Len(cleanup_sessions) :
                 cleanup_sessions'[r].status # cleanup_sessions[r].status
                 => /\ cleanup_sessions[r].status = "started"
                    /\ cleanup_sessions'[r].status \in {"completed", "failed"} ]_vars

\* two handlers have returned, one with a completed row and one with a failed row
C27_Witness ==
    \E h1, h2 \in 1..Len(handlers) :
       /\ handlers[h1].pc = "returned" /\ handlers[h1].session_record # 0
       /\ handlers[h2].pc = "returned" /\ handlers[h2].session_record # 0
       /\ SessionRecord(h1).status = "completed"
       /\ SessionRecord(h2).status = "failed"

(***************************************************************************)
(* Properties of the cleaner's prompt and removal loop                     *)
(***************************************************************************)
Confirmed == confirmation \in {"yes", "y"}

\* C28: clean_liked_songs sends a DELETE only after the answer at the prompt was 'yes'
\* or 'y' (as read: lower-cased and stripped); the prompt is reached only with the whole
\* plan computed and not empty; and without such an answer (any other answer, a failed
\* profile fetch, an empty liked list, an empty plan) no DELETE is sent, no removal call
\* is made and the remote library is as it was.
C28_DeleteOnlyWhenConfirmed ==
    entry = "clean_liked_songs"
    => /\ wire.method = "DELETE" => Confirmed
       /\ pc = "confirm"
            => /\ tracks_to_remove = Classification.plan
               /\ tracks_to_remove # <<>>
               /\ batches = <<>>
       /\ ~Confirmed
            => /\ wire.method # "DELETE"
               /\ pc # "remove_track_from_liked"
               /\ batches = <<>>
               /\ remote = library0

\* a run that was answered 'y' and has removed a track from the remote library
C28_Witness ==
    /\ entry = "clean_liked_songs"
    /\ confirmation = "y"
    /\ wire.method = "DELETE"
    /\ remote # library0

\* the number of removal calls among the first n that returned {"success": True}
RECURSIVE CallsOk(_, _)
CallsOk(log, n) ==
    IF n = 0 THEN 0 ELSE CallsOk(log, n - 1) + (IF log[n].ok THEN 1 ELSE 0)

\* C29: the cleaner's removal loop makes one call per planned track, each with that
\* track's id alone, in plan order, whatever the earlier calls returned; removed_count
\* and failed_count count the calls that succeeded and that failed; and the summary is
\* printed after the last planned track, with removed + failed = the plan length.
C29_RemovalLoopRunsThrough ==
    entry = "clean_liked_songs"
    => /\ Len(batches) <= Len(tracks_to_remove)
       /\ \A k \in 1..Len(batches) : batches[k].ids = <<tracks_to_remove[k].id>>
       /\ wire.method = "DELETE" => Len(wire.ids) = 1
       /\ removed_count = CallsOk(batches, Len(batches))
       /\ removed_count + failed_count = Len(batches)
       /\ pc = "remove_track_from_liked" => Len(batches) < Len(tracks_to_remove)
       /\ summary.kind = "printed"
            => /\ Len(batches) = Len(tracks_to_remove)
               /\ summary.removed + summary.failed = Len(tracks_to_remove)
               /\ summary.removed = removed_count

\* a summary printed after a failed call that was followed by a successful one
C29_Witness ==
    /\ entry = "clean_liked_songs"
    /\ summary.kind = "printed"
    /\ Len(batches) = 2
    /\ ~batches[1].ok
    /\ batches[2].ok
    /\ summary.failed = 1

(***************************************************************************)
(* Properties of the OAuth callback                                        *)
(***************************************************************************)
\* C30: a /callback request in a session that holds no oauth_state, or whose state
\* parameter differs from the session's oauth_state, or that carries no code, makes no
\* token exchange and leaves the session's user_id as it was.
C30_CallbackNeedsLoginState ==
    [][ ( /\ callback_args'.route = "callback"
          /\ \/ session.oauth_state = Missing
             \/ callback_args'.state # session.oauth_state
             \/ callback_args'.code = Missing )
        => /\ exchanges' = exchanges
           /\ session'.user_id = session.user_id ]_vars

====
